---- MODULE Spec2Model ----
(***************************************************************************)
(* A model of Python-Data-Visualization.py: main() with its three flows,   *)
(* auto_generate_plots (the plot plan) and generate_pdf_report (the        *)
(* pagination of the artifacts on a reportlab canvas).                     *)
(*                                                                         *)
(* Strings are TLA+ strings, and an f-string is the concatenation it       *)
(* performs.  Python's 0-based positions are 1-based here: the pair        *)
(* (i, j) of the source is <<i + 1, j + 1>> in the model.                   *)
(*                                                                         *)
(* The chart renderer (matplotlib / seaborn), the image reader of the      *)
(* canvas and the file system are the environment: a render either writes  *)
(* its file or raises, an image either embeds or raises.  The source has   *)
(* no try/except, so a raised exception ends main().                       *)
(***************************************************************************)
EXTENDS Integers, Sequences, FiniteSets, TLC

VARIABLES
    df,           \* the loaded schema: a sequence of [name, dtype], in column order
    pc,           \* position in main() and its callees
    choice,       \* the menu choice read at line 151 ("" before it is read)
    plot_paths,   \* auto_generate_plots' list, later main's local (lines 77, 197)
    requests,     \* history: every call of a plot_* renderer, in call order
    files,        \* the image files on disk
    i,            \* loop position (lines 80, 86, 103, 122, 202)
    j,            \* inner loop position (line 87)
    pages,        \* canvas: the pages already emitted by showPage
    page,         \* canvas: the operations drawn on the page being built
    y_position,   \* line 120
    saved,        \* canvas: c.save() has written the document
    out,          \* what main() printed after the menu
    entered,      \* the column names typed at lines 166, 173-174, 187
    err           \* the exception that ended main(), or NoError

vars == <<df, pc, choice, plot_paths, requests, files, i, j,
          pages, page, y_position, saved, out, entered, err>>

-----------------------------------------------------------------------------
(* Bounds and inputs *)

MaxCols == 3

ColumnNames == {"avs", "a", "vsa", "city"}

DTypes == {"number", "object", "other"}

Choices == {"1", "2", "3", "4"}

-----------------------------------------------------------------------------
(* Program constants *)

height == 792

HeaderY == height - 100

TopY == height - 150

RowStep == 350

BottomThreshold == 100

HeaderText == "Data Visualization Report"

ReportName == "data_visualization_report.pdf"

NoError == [type |-> "none", path |-> ""]

-----------------------------------------------------------------------------
(* Pure helpers *)

Range(s) == {s[n] : n \in 1..Len(s)}

\* df.columns
Columns == {df[n].name : n \in 1..Len(df)}

IsKind(c, t) == c.dtype = t

\* df.select_dtypes(include=...).columns.tolist(): the names, in column order
RECURSIVE SelectDtypes(_, _)
SelectDtypes(s, t) ==
    IF s = <<>> THEN <<>>
    ELSE (IF IsKind(Head(s), t) THEN <<Head(s).name>> ELSE <<>>)
         \o SelectDtypes(Tail(s), t)

numerical_cols == SelectDtypes(df, "number")

categorical_cols == SelectDtypes(df, "object")

HistogramPath(col) == "histogram_" \o col \o ".png"

ScatterPath(x_col, y_col) == "scatter_" \o x_col \o "vs" \o y_col \o ".png"

PiePath(col) == "pie_chart_" \o col \o ".png"

HeatmapPath == "correlation_heatmap.png"

PairplotPath == "pairplot.png"

\* the inner loop started at i: every column is paired with itself too
InnerStart_Self(a) == a

\* range(i + 1, len(numerical_cols)): the first j of the inner loop
InnerStart(a) == a + 1

\* the threshold with its sign lost
NeedNewPage_Late(y) == y < 0 - BottomThreshold

\* the test made for the next row instead of the row just placed
NeedNewPage_LookAhead(y) == y - RowStep < BottomThreshold

\* if y_position < 100
NeedNewPage(y) == y < BottomThreshold

Schemas ==
    UNION { { s \in [1..n -> [name : ColumnNames, dtype : DTypes]] :
                \A a, b \in 1..n : a # b => s[a].name # s[b].name }
            : n \in 0..MaxCols }

-----------------------------------------------------------------------------
(* The renderer and the exceptions *)

Raise(type, path) ==
    /\ err' = [type |-> type, path |-> path]
    /\ pc' = "exit"

\* A call of a plot_* function; in auto_generate_plots the append that follows it.
\* A call that raises does so before savefig (nothing written) or inside it (the
\* file may be there already).
Render(kind, cols, idx, path, ok, collect, next) ==
    /\ requests' = Append(requests,
            [kind |-> kind, cols |-> cols, idx |-> idx, path |-> path, ok |-> ok])
    /\ IF ok
       THEN /\ files' = files \cup {path}
            /\ plot_paths' = IF collect THEN Append(plot_paths, path) ELSE plot_paths
            /\ pc' = next
            /\ err' = err
       ELSE /\ \E written \in BOOLEAN :
                 files' = IF written THEN files \cup {path} ELSE files
            /\ plot_paths' = plot_paths
            /\ Raise("RenderError", path)

-----------------------------------------------------------------------------
Init ==
    /\ df \in Schemas
    /\ pc = "main"
    /\ choice = ""
    /\ plot_paths = <<>>
    /\ requests = <<>>
    /\ files = {}
    /\ i = 1
    /\ j = 1
    /\ pages = <<>>
    /\ page = <<>>
    /\ y_position = 0
    /\ saved = FALSE
    /\ out = <<>>
    /\ entered = <<>>
    /\ err = NoError

canvasVars == <<pages, page, y_position, saved>>

\* what only the menu of choice '2' writes
menuVars == <<entered>>

-----------------------------------------------------------------------------
(* main(): the menu, lines 151-206 *)

\* the heatmap and the pairplot guarded like the pair loops
HasNumerical_Pairs == Len(numerical_cols) > 1

\* `if numerical_cols:`
HasNumerical == numerical_cols # <<>>

\* the pair loops guarded by one column too many
HasPairs_Off == Len(numerical_cols) > 2

\* `if len(numerical_cols) > 1:`
HasPairs == Len(numerical_cols) > 1

\* choice = input(...), and the dispatch on it
MainChoice ==
    /\ pc = "main"
    /\ \E c \in Choices :
         /\ choice' = c
         /\ IF c \in {"1", "3"}
            THEN /\ pc' = "agp_hist"
                 /\ out' = out
            ELSE IF c = "2"
            THEN /\ pc' = "specific"
                 /\ out' = out
            ELSE /\ pc' = "exit"
                 /\ out' = Append(out, "Invalid choice.")
    /\ i' = 1
    /\ UNCHANGED <<menuVars, df, plot_paths, requests, files, j, canvasVars, err>>

\* specific_choice '1'
SpecificHistogram ==
    /\ pc = "specific"
    /\ \E column \in ColumnNames :
         /\ entered' = <<column>>
         /\ IF column \in Columns
            THEN /\ \E ok \in BOOLEAN :
                      Render("histogram", <<column>>, <<>>, HistogramPath(column),
                             ok, FALSE, "exit")
                 /\ out' = out
            ELSE /\ out' = Append(out, "Column not found.")
                 /\ pc' = "exit"
                 /\ UNCHANGED <<requests, files, plot_paths, err>>
    /\ UNCHANGED <<df, choice, i, j, canvasVars>>

\* specific_choice '2'
SpecificScatter ==
    /\ pc = "specific"
    /\ \E x_col \in ColumnNames, y_col \in ColumnNames :
         /\ entered' = <<x_col, y_col>>
         /\ IF x_col \in Columns /\ y_col \in Columns
            THEN /\ \E ok \in BOOLEAN :
                      Render("scatter", <<x_col, y_col>>, <<>>,
                             ScatterPath(x_col, y_col), ok, FALSE, "exit")
                 /\ out' = out
            ELSE /\ out' = Append(out, "One or both columns not found.")
                 /\ pc' = "exit"
                 /\ UNCHANGED <<requests, files, plot_paths, err>>
    /\ UNCHANGED <<df, choice, i, j, canvasVars>>

\* specific_choice '3'
SpecificPairplot ==
    /\ pc = "specific"
    /\ \E ok \in BOOLEAN :
         Render("pairplot", <<>>, <<>>, PairplotPath, ok, FALSE, "exit")
    /\ UNCHANGED <<menuVars, df, choice, i, j, canvasVars, out>>

\* specific_choice '4'
SpecificHeatmap ==
    /\ pc = "specific"
    /\ \E ok \in BOOLEAN :
         Render("heatmap", <<>>, <<>>, HeatmapPath, ok, FALSE, "exit")
    /\ UNCHANGED <<menuVars, df, choice, i, j, canvasVars, out>>

\* specific_choice '5'
SpecificPie ==
    /\ pc = "specific"
    /\ \E column \in ColumnNames :
         /\ entered' = <<column>>
         /\ IF column \in Columns
            THEN /\ \E ok \in BOOLEAN :
                      Render("pie", <<column>>, <<>>, PiePath(column), ok, FALSE, "exit")
                 /\ out' = out
            ELSE /\ out' = Append(out, "Column not found.")
                 /\ pc' = "exit"
                 /\ UNCHANGED <<requests, files, plot_paths, err>>
    /\ UNCHANGED <<df, choice, i, j, canvasVars>>

\* any other specific_choice
SpecificInvalid ==
    /\ pc = "specific"
    /\ out' = Append(out, "Invalid choice.")
    /\ pc' = "exit"
    /\ UNCHANGED <<menuVars, df, choice, plot_paths, requests, files, i, j, canvasVars, err>>

-----------------------------------------------------------------------------
(* auto_generate_plots(df), lines 70-108 *)

\* one turn of the histogram loop, lines 80-83 (the `if` of line 79 adds nothing
\* to the loop's own test)
AgpHistogram ==
    /\ pc = "agp_hist"
    /\ i <= Len(numerical_cols)
    /\ \E ok \in BOOLEAN :
         Render("histogram", <<numerical_cols[i]>>, <<i>>,
                HistogramPath(numerical_cols[i]), ok, TRUE, "agp_hist")
    /\ i' = i + 1
    /\ UNCHANGED <<menuVars, df, choice, j, canvasVars, out>>

\* the histogram loop is over; line 85 decides whether the pair loops run
AgpHistogramsDone ==
    /\ pc = "agp_hist"
    /\ i > Len(numerical_cols)
    /\ pc' = IF HasPairs THEN "agp_scatter" ELSE "agp_heatmap"
    /\ i' = 1
    /\ j' = InnerStart(1)
    /\ UNCHANGED <<menuVars, df, choice, plot_paths, requests, files, canvasVars, out, err>>

\* one turn of the inner loop, lines 87-90
AgpScatter ==
    /\ pc = "agp_scatter"
    /\ i <= Len(numerical_cols)
    /\ j <= Len(numerical_cols)
    /\ \E ok \in BOOLEAN :
         Render("scatter", <<numerical_cols[i], numerical_cols[j]>>, <<i, j>>,
                ScatterPath(numerical_cols[i], numerical_cols[j]), ok, TRUE,
                "agp_scatter")
    /\ j' = j + 1
    /\ UNCHANGED <<menuVars, df, choice, i, canvasVars, out>>

\* the inner loop is over: next i, line 86
AgpScatterNextI ==
    /\ pc = "agp_scatter"
    /\ i <= Len(numerical_cols)
    /\ j > Len(numerical_cols)
    /\ i' = i + 1
    /\ j' = InnerStart(i + 1)
    /\ UNCHANGED <<menuVars, df, pc, choice, plot_paths, requests, files, canvasVars, out, err>>

\* the outer loop is over
AgpScattersDone ==
    /\ pc = "agp_scatter"
    /\ i > Len(numerical_cols)
    /\ pc' = "agp_heatmap"
    /\ UNCHANGED <<menuVars, df, choice, plot_paths, requests, files, i, j, canvasVars, out, err>>

\* lines 92-95
AgpHeatmap ==
    /\ pc = "agp_heatmap"
    /\ IF HasNumerical
       THEN \E ok \in BOOLEAN :
              Render("heatmap", numerical_cols, <<>>, HeatmapPath, ok, TRUE,
                     "agp_pairplot")
       ELSE /\ pc' = "agp_pairplot"
            /\ UNCHANGED <<requests, files, plot_paths, err>>
    /\ UNCHANGED <<menuVars, df, choice, i, j, canvasVars, out>>

\* lines 97-100
AgpPairplot ==
    /\ pc = "agp_pairplot"
    /\ IF HasNumerical
       THEN \E ok \in BOOLEAN :
              Render("pairplot", numerical_cols, <<>>, PairplotPath, ok, TRUE,
                     "agp_pie")
       ELSE /\ pc' = "agp_pie"
            /\ UNCHANGED <<requests, files, plot_paths, err>>
    /\ i' = 1
    /\ UNCHANGED <<menuVars, df, choice, j, canvasVars, out>>

\* one turn of the pie loop, lines 103-106
AgpPie ==
    /\ pc = "agp_pie"
    /\ i <= Len(categorical_cols)
    /\ \E ok \in BOOLEAN :
         Render("pie", <<categorical_cols[i]>>, <<i>>,
                PiePath(categorical_cols[i]), ok, TRUE, "agp_pie")
    /\ i' = i + 1
    /\ UNCHANGED <<menuVars, df, choice, j, canvasVars, out>>

\* return plot_paths, line 108
AgpReturn ==
    /\ pc = "agp_pie"
    /\ i > Len(categorical_cols)
    /\ pc' = "agp_return"
    /\ UNCHANGED <<menuVars, df, choice, plot_paths, requests, files, i, j, canvasVars, out, err>>

\* back in main(): line 154 ends it, line 197 goes on to the report
MainAfterAgp ==
    /\ pc = "agp_return"
    /\ pc' = IF choice = "3" THEN "pdf_begin" ELSE "exit"
    /\ UNCHANGED <<menuVars, df, choice, plot_paths, requests, files, i, j, canvasVars, out, err>>

-----------------------------------------------------------------------------
(* generate_pdf_report(plot_paths, output_filename), lines 110-132 *)

\* c.setFont(...); c.drawString(100, height - 100, "Data Visualization Report")
Header == [op |-> "drawString", arg |-> HeaderText, y |-> HeaderY]

Image(path, y) == [op |-> "drawImage", arg |-> path, y |-> y]

\* lines 114-120
PdfBegin ==
    /\ pc = "pdf_begin"
    /\ pages' = <<>>
    /\ page' = <<Header>>
    /\ y_position' = TopY
    /\ i' = 1
    /\ pc' = "pdf_loop"
    /\ UNCHANGED <<menuVars, df, choice, plot_paths, requests, files, j, saved, out, err>>

\* the failing image skipped (as under a try/except around drawImage)
EmbedFailure_Skip(path) ==
    /\ err' = [type |-> "ArtifactReadError", path |-> path]
    /\ i' = i + 1
    /\ UNCHANGED <<pc, pages, page, y_position>>

\* c.drawImage raises on a file it cannot read or decode; nothing catches it
EmbedFailure(path) ==
    /\ Raise("ArtifactReadError", path)
    /\ UNCHANGED <<pages, page, y_position, i>>

\* one turn of the loop, lines 123-130
PdfDrawImage ==
    /\ pc = "pdf_loop"
    /\ i <= Len(plot_paths)
    /\ \E ok \in (IF plot_paths[i] \in files THEN BOOLEAN ELSE {FALSE}) :
         IF ok
         THEN LET drawn == Append(page, Image(plot_paths[i], y_position))
                  y     == y_position - RowStep
              IN  /\ IF NeedNewPage(y)
                     THEN /\ pages' = Append(pages, drawn)
                          /\ page' = <<Header>>
                          /\ y_position' = TopY
                     ELSE /\ pages' = pages
                          /\ page' = drawn
                          /\ y_position' = y
                  /\ i' = i + 1
                  /\ UNCHANGED <<pc, err>>
         ELSE EmbedFailure(plot_paths[i])
    /\ UNCHANGED <<menuVars, df, choice, plot_paths, requests, files, j, saved, out>>

\* c.save(), line 132: the page being built is emitted when something is drawn on it
PdfSave ==
    /\ pc = "pdf_loop"
    /\ i > Len(plot_paths)
    /\ pages' = IF page # <<>> THEN Append(pages, page) ELSE pages
    /\ page' = <<>>
    /\ saved' = TRUE
    /\ pc' = "print_done"
    /\ UNCHANGED <<menuVars, df, choice, plot_paths, requests, files, i, j, y_position, out, err>>

-----------------------------------------------------------------------------
(* main(), lines 199-203 *)

MainPrintDone ==
    /\ pc = "print_done"
    /\ out' = Append(out, "PDF report generated: " \o ReportName)
    /\ i' = 1
    /\ pc' = "remove_loop"
    /\ UNCHANGED <<menuVars, df, choice, plot_paths, requests, files, j, canvasVars, err>>

\* os.remove(plot_path): raises when the file is no longer there
MainRemove ==
    /\ pc = "remove_loop"
    /\ i <= Len(plot_paths)
    /\ IF plot_paths[i] \in files
       THEN /\ files' = files \ {plot_paths[i]}
            /\ i' = i + 1
            /\ UNCHANGED <<pc, err>>
       ELSE /\ Raise("FileNotFoundError", plot_paths[i])
            /\ UNCHANGED <<files, i>>
    /\ UNCHANGED <<menuVars, df, choice, plot_paths, requests, j, canvasVars, out>>

MainRemoveDone ==
    /\ pc = "remove_loop"
    /\ i > Len(plot_paths)
    /\ pc' = "exit"
    /\ UNCHANGED <<menuVars, df, choice, plot_paths, requests, files, i, j, canvasVars, out, err>>

-----------------------------------------------------------------------------
Next ==
    \/ MainChoice
    \/ SpecificHistogram
    \/ SpecificScatter
    \/ SpecificPairplot
    \/ SpecificHeatmap
    \/ SpecificPie
    \/ SpecificInvalid
    \/ AgpHistogram
    \/ AgpHistogramsDone
    \/ AgpScatter
    \/ AgpScatterNextI
    \/ AgpScattersDone
    \/ AgpHeatmap
    \/ AgpPairplot
    \/ AgpPie
    \/ AgpReturn
    \/ MainAfterAgp
    \/ PdfBegin
    \/ PdfDrawImage
    \/ PdfSave
    \/ MainPrintDone
    \/ MainRemove
    \/ MainRemoveDone

Spec == Init /\ [][Next]_vars

-----------------------------------------------------------------------------
(* Vocabulary of the properties *)

k == Len(numerical_cols)

m == Len(categorical_cols)

Choose2(n) == (n * (n - 1)) \div 2

Rep(x, n) == [q \in 1..n |-> x]

\* choices '1' and '3' run auto_generate_plots
AutoMode == choice \in {"1", "3"}

\* positions of a run of auto_generate_plots that is past its pair loops
PastScatter ==
    pc \in {"agp_heatmap", "agp_pairplot", "agp_pie", "agp_return",
            "pdf_begin", "pdf_loop", "print_done", "remove_loop"}

OfKind(kind) == SelectSeq(requests, LAMBDA r : r.kind = kind)

Kinds == [n \in 1..Len(requests) |-> requests[n].kind]

LexLess(p, q) == p[1] < q[1] \/ (p[1] = q[1] /\ p[2] < q[2])

Rank(kind) ==
    CASE kind = "histogram" -> 1
      [] kind = "scatter"   -> 2
      [] kind = "heatmap"   -> 3
      [] kind = "pairplot"  -> 4
      [] kind = "pie"       -> 5

-----------------------------------------------------------------------------
(* C1: when auto_generate_plots returns (every render having succeeded),   *)
(* its list has k + C(k,2) + (2 if k >= 1 else 0) + m entries, k and m     *)
(* the numbers of numerical and categorical columns; with k = m = 0 the    *)
(* list is empty and no exception is raised.                               *)
C1_PlanLength ==
    /\ pc = "agp_return" =>
         Len(plot_paths) = k + Choose2(k) + (IF k >= 1 THEN 2 ELSE 0) + m
    /\ (AutoMode /\ k = 0 /\ m = 0) => (err = NoError /\ plot_paths = <<>>)

C1_Witness ==
    /\ pc = "agp_return"
    /\ k >= 2
    /\ m >= 1
    /\ Len(plot_paths) >= 6

(* C2: the scatter requests of auto_generate_plots are the pairs (i, j)    *)
(* with i < j of positions of numerical columns, each once, in the order   *)
(* i ascending, then j ascending; no (i, i), no (j, i).                     *)
C2_ScatterPairs ==
    AutoMode =>
      LET sc == OfKind("scatter")
      IN  /\ \A n \in 1..Len(sc) :
               /\ sc[n].idx[1] \in 1..k
               /\ sc[n].idx[2] \in 1..k
               /\ sc[n].idx[1] < sc[n].idx[2]
               /\ sc[n].cols = <<numerical_cols[sc[n].idx[1]],
                                 numerical_cols[sc[n].idx[2]]>>
          /\ \A a, b \in 1..Len(sc) : a < b => LexLess(sc[a].idx, sc[b].idx)
          /\ PastScatter =>
               {sc[n].idx : n \in 1..Len(sc)}
                 = {p \in (1..k) \X (1..k) : p[1] < p[2]}

C2_Witness ==
    /\ AutoMode
    /\ PastScatter
    /\ k = 3
    /\ Len(OfKind("scatter")) = 3

(* C3: the requests come in the group order histograms, scatter plots,     *)
(* heatmap, pairplot, pie charts; histograms and pies in schema order; the *)
(* heatmap and the pairplot at most once each, and in a returned plan once *)
(* each exactly when there is a numerical column, heatmap first.           *)
C3_GroupOrder ==
    AutoMode =>
      /\ \A a, b \in 1..Len(requests) :
           a < b => Rank(requests[a].kind) <= Rank(requests[b].kind)
      /\ Len(OfKind("heatmap")) <= 1
      /\ Len(OfKind("pairplot")) <= 1
      /\ pc = "agp_return" =>
           /\ Kinds = Rep("histogram", k) \o Rep("scatter", Choose2(k))
                        \o (IF k >= 1 THEN <<"heatmap", "pairplot">> ELSE <<>>)
                        \o Rep("pie", m)
           /\ \A n \in 1..k : requests[n].cols = <<numerical_cols[n]>>
           /\ \A n \in 1..m :
                requests[Len(requests) - m + n].cols = <<categorical_cols[n]>>
           /\ plot_paths = [n \in 1..Len(requests) |-> requests[n].path]

C3_Witness ==
    /\ pc = "agp_return"
    /\ k = 1
    /\ m = 2
    /\ Kinds = <<"histogram", "heatmap", "pairplot", "pie", "pie">>

(* C4: with pairwise distinct column names, no two requests of one run of  *)
(* auto_generate_plots have the same artifact path.                        *)
C4_DistinctArtifacts ==
    AutoMode =>
      \A a, b \in 1..Len(plot_paths) : a # b => plot_paths[a] # plot_paths[b]

-----------------------------------------------------------------------------
(* Vocabulary of the canvas properties *)

RECURSIVE Flatten(_)
Flatten(ss) == IF ss = <<>> THEN <<>> ELSE Head(ss) \o Flatten(Tail(ss))

\* the paths of the images drawn so far, in drawing order
AllImages ==
    LET ops == SelectSeq(Flatten(pages) \o page, LAMBDA o : o.op = "drawImage")
    IN  [n \in 1..Len(ops) |-> ops[n].arg]

\* the pages of the canvas: those emitted, and the one being built if any
PagesSoFar == IF page = <<>> THEN pages ELSE Append(pages, page)

\* P: the rows TopY, TopY - RowStep, ... that are not below the threshold
PerPage == ((TopY - BottomThreshold) \div RowStep) + 1

InReport == pc \in {"pdf_loop", "print_done", "remove_loop"} \/ saved

Failed == {n \in 1..Len(requests) : ~requests[n].ok}

Rendered == SelectSeq(requests, LAMBDA r : r.ok)

\* t occurs in s
Contains(s, t) ==
    \E a \in 1..(Len(s) - Len(t) + 1) : SubSeq(s, a, a + Len(t) - 1) = t

NotFoundMessages == {"Column not found.", "One or both columns not found."}

-----------------------------------------------------------------------------
(* C5, as claimed: a saved document of exactly P artifacts has one page    *)
(* (no page is started after the last artifact), and one of P + 1          *)
(* artifacts has two pages.                                                *)
C5_Original ==
    saved =>
      /\ Len(plot_paths) = PerPage => Len(pages) = 1
      /\ Len(plot_paths) = PerPage + 1 => Len(pages) = 2

(* C5, amended: P = 2; a saved document of exactly P artifacts has two     *)
(* pages, the second holding the header alone, because the page break      *)
(* follows the P-th placement; a saved document of P + 1 artifacts has two *)
(* pages too, the second holding the header and the last artifact.         *)
C5_Boundary ==
    /\ PerPage = 2
    /\ saved =>
         /\ Len(plot_paths) = PerPage =>
              /\ Len(pages) = 2
              /\ Len(pages[1]) = 1 + PerPage
              /\ pages[2] = <<Header>>
         /\ Len(plot_paths) = PerPage + 1 =>
              /\ Len(pages) = 2
              /\ Len(pages[1]) = 1 + PerPage
              /\ pages[2] = <<Header, Image(plot_paths[PerPage + 1], TopY)>>

C5_Witness ==
    /\ saved
    /\ Len(plot_paths) = PerPage
    /\ Len(pages) = 2

(* C6: the artifacts are placed in list order, the n-th of a page at       *)
(* TopY - (n - 1) * RowStep; a page is closed exactly when the cursor      *)
(* after a placement is below the threshold, and the next page starts with *)
(* the header and the cursor at TopY; every page has its header first, and *)
(* every artifact is placed at a cursor of at least the threshold.         *)
C6_Pagination ==
    InReport =>
      /\ AllImages = SubSeq(plot_paths, 1, Len(AllImages))
      /\ pc = "pdf_loop" => Len(AllImages) = i - 1
      /\ (saved /\ err = NoError) => AllImages = plot_paths
      /\ \A n \in 1..Len(PagesSoFar) :
           LET pg == PagesSoFar[n]
           IN  /\ pg[1] = Header
               /\ \A q \in 2..Len(pg) :
                    /\ pg[q].op = "drawImage"
                    /\ pg[q].y = TopY - (q - 2) * RowStep
                    /\ pg[q].y >= BottomThreshold
      \* a page closed by the loop ends on the placement that crossed the threshold
      /\ \A n \in 1..Len(pages) :
           (pc = "pdf_loop" \/ n < Len(pages)) =>
              /\ Len(pages[n]) >= 2
              /\ pages[n][Len(pages[n])].y - RowStep < BottomThreshold
      \* the page being built has not crossed it
      /\ pc = "pdf_loop" =>
           /\ y_position = TopY - (Len(page) - 1) * RowStep
           /\ y_position >= BottomThreshold

C6_Witness ==
    /\ pc = "pdf_loop"
    /\ Len(pages) >= 2
    /\ Len(page) = 2

(* C7: in the report flow a failed render does not end the run: every      *)
(* request of the plan is still rendered, and the document is saved with   *)
(* the successfully rendered artifacts, in order.                          *)
C7_RenderFailureTolerated ==
    (choice = "3" /\ pc = "exit" /\ Failed # {}) =>
      /\ Len(requests) = k + Choose2(k) + (IF k >= 1 THEN 2 ELSE 0) + m
      /\ saved
      /\ AllImages = [n \in 1..Len(Rendered) |-> Rendered[n].path]

(* C8: in single-request mode a histogram, scatter or pie request on a     *)
(* column that is not in the schema is answered by a message that names    *)
(* the missing column, and no renderer is called and no file is written.   *)
C8_ColumnNotFoundNamed ==
    (choice = "2" /\ pc = "exit" /\ Range(entered) \ Columns # {}) =>
      /\ requests = <<>>
      /\ files = {}
      /\ out # <<>>
      /\ \A c \in Range(entered) \ Columns : Contains(out[Len(out)], c)

(* C9: in the report flow every artifact file the run wrote is deleted by  *)
(* the time main() ends, however it ends, and none is deleted before the   *)
(* document is saved.                                                      *)
C9_ArtifactsCleanedUp ==
    choice = "3" =>
      /\ pc = "exit" => files = {}
      /\ (\E n \in 1..Len(requests) :
            requests[n].ok /\ requests[n].path \notin files) => saved

(* C10: when an artifact cannot be embedded, generate_pdf_report ends on   *)
(* that artifact: the ones before it are placed, none after it is, the     *)
(* document is never saved, and the exception ends main() (no report       *)
(* message, no file removed).                                              *)
C10_AbortOnEmbedFailure ==
    err.type = "ArtifactReadError" =>
      /\ pc = "exit"
      /\ ~saved
      /\ i \in 1..Len(plot_paths)
      /\ err.path = plot_paths[i]
      /\ AllImages = SubSeq(plot_paths, 1, i - 1)
      /\ out = <<>>
      /\ \A n \in 1..Len(plot_paths) : plot_paths[n] \in files

C10_Witness ==
    /\ err.type = "ArtifactReadError"
    /\ i >= 3
    /\ i < Len(plot_paths)
    /\ Len(AllImages) = i - 1

====
